---- MODULE Spec2Model ----
(***************************************************************************)
(* School Management System (src/alishba.py): a Streamlit script over a    *)
(* SQLite file with seven tables.  Every user interaction re-executes the  *)
(* script from its first line; the store is the only state that survives a *)
(* run apart from the widget values.                                        *)
(*                                                                         *)
(* Texts are sequences of one-character strings, so that substring search, *)
(* case folding and the parsing of numbers are computed, not assumed.      *)
(***************************************************************************)
EXTENDS Integers, Sequences, FiniteSets, TLC

VARIABLES
    db,        \* school.db: table name -> its rows (committed state)
    stale,     \* a replaced connection still holds an open write transaction
    module,    \* the sidebar's selection
    search,    \* the value of the search box of the module on the page
    confirm,   \* the confirmation checkbox: "absent", "unticked", "ticked"
    rendered,  \* the widgets the last run put on the page
    view,      \* what the last run displayed
    last       \* the interaction that started the last run

vars == <<db, stale, module, search, confirm, rendered, view, last>>

(***************************************************************************)
(* Bounds of the model.                                                    *)
(***************************************************************************)
\* Most rows the store holds (over all tables) before inserts are disabled.
MaxRows == 2
\* Largest identifier an insert may assign, and largest one entered.
MaxId == 2

(***************************************************************************)
(* Texts.                                                                  *)
(***************************************************************************)
EmptyText == << >>

Digits == <<"0", "1", "2", "3", "4", "5", "6", "7", "8", "9">>

UpperCase == <<"A", "B", "C", "D", "E", "F", "G", "H", "I", "J", "K", "L", "M",
               "N", "O", "P", "Q", "R", "S", "T", "U", "V", "W", "X", "Y", "Z">>

LowerCase == <<"a", "b", "c", "d", "e", "f", "g", "h", "i", "j", "k", "l", "m",
               "n", "o", "p", "q", "r", "s", "t", "u", "v", "w", "x", "y", "z">>

IsDigit(ch) == \E i \in 1..Len(Digits) : Digits[i] = ch

DigitVal(ch) == (CHOOSE i \in 1..Len(Digits) : Digits[i] = ch) - 1

\* Case folding of one character (re.IGNORECASE on the ASCII letters).
Lower(ch) ==
    IF \E i \in 1..Len(UpperCase) : UpperCase[i] = ch
    THEN LowerCase[CHOOSE i \in 1..Len(UpperCase) : UpperCase[i] = ch]
    ELSE ch

\* str(n) of a natural number.
RECURSIVE StrNat(_)
StrNat(n) ==
    IF n < 10 THEN <<Digits[n + 1]>>
    ELSE StrNat(n \div 10) \o <<Digits[(n % 10) + 1]>>

\* The number a string of decimal digits denotes.
RECURSIVE ParseNat(_)
ParseNat(s) ==
    IF Len(s) = 0 THEN 0
    ELSE 10 * ParseNat(SubSeq(s, 1, Len(s) - 1)) + DigitVal(s[Len(s)])

\* Zero-padded decimal of width w (strftime's %m, %d).
RECURSIVE Pad(_, _)
Pad(s, w) == IF Len(s) >= w THEN s ELSE Pad(<<"0">> \o s, w)

(***************************************************************************)
(* Values of the store and of Python: text, integer, real (reals are kept  *)
(* by their whole value: the inputs of the model hold no fraction), NULL.  *)
(***************************************************************************)
TextV(s) == [k |-> "text", s |-> s, n |-> 0]

IntV(n) == [k |-> "int", s |-> EmptyText, n |-> n]

RealV(n) == [k |-> "real", s |-> EmptyText, n |-> n]

NullV == [k |-> "null", s |-> EmptyText, n |-> 0]

\* SQLite reads a text as a number when it is a well-formed numeric literal.
\* The inputs of the model hold letters and digits only (no sign, blank,
\* point or exponent), for which that is: a non-empty string of digits.
IsNumeric(s) == Len(s) > 0 /\ \A i \in 1..Len(s) : IsDigit(s[i])

\* The value a column of declared type typ stores for a bound parameter v
\* (SQLite's type affinity, applied by INSERT and UPDATE).
Affinity(typ, v) ==
    CASE typ = "INTEGER" ->
            IF v.k = "text" /\ IsNumeric(v.s) THEN IntV(ParseNat(v.s)) ELSE v
      [] typ = "REAL" ->
            IF v.k = "text" /\ IsNumeric(v.s) THEN RealV(ParseNat(v.s))
            ELSE IF v.k = "int" THEN RealV(v.n) ELSE v
      [] OTHER ->
            IF v.k = "int" THEN TextV(StrNat(v.n))
            ELSE IF v.k = "real" THEN TextV(StrNat(v.n) \o <<".", "0">>) ELSE v

\* str(v) of a Python value read back from the store.
Str(v) ==
    CASE v.k = "text" -> v.s
      [] v.k = "int" -> StrNat(v.n)
      [] v.k = "real" -> StrNat(v.n) \o <<".", "0">>
      [] OTHER -> <<"N", "o", "n", "e">>

(***************************************************************************)
(* The seven tables.                                                       *)
(***************************************************************************)
Col(name, typ) == [name |-> name, typ |-> typ]

tables ==
    [students   |-> <<Col("id", "INTEGER"), Col("name", "TEXT"),
                      Col("class", "TEXT"), Col("age", "INTEGER")>>,
     teachers   |-> <<Col("id", "INTEGER"), Col("name", "TEXT"),
                      Col("subject", "TEXT")>>,
     attendance |-> <<Col("id", "INTEGER"), Col("student_id", "INTEGER"),
                      Col("date", "TEXT"), Col("status", "TEXT")>>,
     fees       |-> <<Col("id", "INTEGER"), Col("student_id", "INTEGER"),
                      Col("amount", "REAL"), Col("paid", "INTEGER")>>,
     exams      |-> <<Col("id", "INTEGER"), Col("student_id", "INTEGER"),
                      Col("subject", "TEXT"), Col("marks", "INTEGER")>>,
     library    |-> <<Col("id", "INTEGER"), Col("book", "TEXT"),
                      Col("student_id", "INTEGER"), Col("issue_date", "TEXT")>>,
     timetable  |-> <<Col("id", "INTEGER"), Col("class", "TEXT"),
                      Col("day", "TEXT"), Col("subject", "TEXT"),
                      Col("teacher", "TEXT")>>]

TableNames == DOMAIN tables

ColNames(table) == {tables[table][i].name : i \in 1..Len(tables[table])}

ColType(table, col) ==
    tables[table][CHOOSE i \in 1..Len(tables[table]) :
                      tables[table][i].name = col].typ

\* CREATE TABLE IF NOT EXISTS on a new file: seven empty tables.
EmptyStore == [t \in TableNames |-> << >>]

(***************************************************************************)
(* Record accessors.  A table is the sequence of its rows in rowid order,  *)
(* the order SELECT * returns them in; a row maps column names to values.  *)
(***************************************************************************)
Ids(rows) == {rows[i]["id"].n : i \in 1..Len(rows)}

MaxOf(S) == CHOOSE x \in S : \A y \in S : y <= x

\* One more than the number of rows.
NextIdByCount(rows) == Len(rows) + 1

\* The rowid an INTEGER PRIMARY KEY column gets when none is supplied.
NextId(rows) == IF Len(rows) = 0 THEN 1 ELSE MaxOf(Ids(rows)) + 1

get_df(store, table) == store[table]

IndexOf(seq, x) == CHOOSE i \in 1..Len(seq) : seq[i] = x

InSeq(seq, x) == \E i \in 1..Len(seq) : seq[i] = x

\* The values bound to the columns in reverse order.
add_record_reversed(store, table, columns, values) ==
    LET rows == store[table]
        row  == [c \in ColNames(table) |->
                    IF c = "id" THEN IntV(NextId(rows))
                    ELSE IF InSeq(columns, c)
                         THEN Affinity(ColType(table, c),
                                       values[Len(columns) + 1
                                              - IndexOf(columns, c)])
                         ELSE NullV]
    IN  [store EXCEPT ![table] = Append(rows, row)]

\* INSERT INTO table (columns) VALUES (values), then commit.
add_record(store, table, columns, values) ==
    LET rows == store[table]
        row  == [c \in ColNames(table) |->
                    IF c = "id" THEN IntV(NextId(rows))
                    ELSE IF InSeq(columns, c)
                         THEN Affinity(ColType(table, c),
                                       values[IndexOf(columns, c)])
                         ELSE NullV]
    IN  [store EXCEPT ![table] = Append(rows, row)]

RECURSIVE Without(_, _)
Without(rows, id_val) ==
    IF Len(rows) = 0 THEN << >>
    ELSE IF Head(rows)["id"].n = id_val THEN Without(Tail(rows), id_val)
         ELSE <<Head(rows)>> \o Without(Tail(rows), id_val)

\* DELETE FROM table WHERE id<=?
delete_record_upto(store, table, id_val) ==
    [store EXCEPT ![table] =
        SelectSeq(store[table], LAMBDA row : row["id"].n > id_val)]

\* DELETE FROM table WHERE id=?, then commit.
delete_record(store, table, id_val) ==
    [store EXCEPT ![table] = Without(store[table], id_val)]

(***************************************************************************)
(* The Update panel's statements (crud_module, the loop over the fields).  *)
(***************************************************************************)
\* The statement without its WHERE clause.
UpdateFieldEveryRow(store, table, field, value, record_id) ==
    [store EXCEPT ![table] =
        [i \in 1..Len(store[table]) |->
            [store[table][i] EXCEPT
                ![field] = Affinity(ColType(table, field), value)]]]

\* UPDATE table SET field=? WHERE id=?  (not committed).
UpdateField(store, table, field, value, record_id) ==
    [store EXCEPT ![table] =
        [i \in 1..Len(store[table]) |->
            IF store[table][i]["id"].n = record_id
            THEN [store[table][i] EXCEPT
                     ![field] = Affinity(ColType(table, field), value)]
            ELSE store[table][i]]]

\* The loop without its `if value`.
StatementsForAll(fields, updates) ==
    [i \in 1..Len(fields) |->
        [field |-> fields[i], value |-> TextV(updates[i])]]

\* The (field, value) pairs the loop issues a statement for: `if value`.
RECURSIVE Statements(_, _)
Statements(fields, updates) ==
    IF Len(fields) = 0 THEN << >>
    ELSE IF Head(updates) # EmptyText
         THEN <<[field |-> Head(fields), value |-> TextV(Head(updates))]>>
                  \o Statements(Tail(fields), Tail(updates))
         ELSE Statements(Tail(fields), Tail(updates))

\* The connection's view of the store after the first k statements.
RECURSIVE Execute(_, _, _, _, _)
Execute(store, table, stmts, record_id, k) ==
    IF k = 0 THEN store
    ELSE UpdateField(Execute(store, table, stmts, record_id, k - 1), table,
                     stmts[k].field, stmts[k].value, record_id)

\* The statement that raises: the first when the file is locked by another
\* connection, else the one the storage fault hits (0: none raises).
FailAt(stmts, fault, locked) ==
    IF Len(stmts) = 0 THEN 0
    ELSE IF locked THEN 1
    ELSE IF fault <= Len(stmts) THEN fault ELSE 0

\* Each statement committed as it is executed.
UpdateRecordAutocommit(store, table, fields, updates, record_id, fault, locked) ==
    LET stmts  == Statements(fields, updates)
        failAt == FailAt(stmts, fault, locked)
    IN  IF failAt = 0
        THEN [store  |-> Execute(store, table, stmts, record_id, Len(stmts)),
              raised |-> FALSE, open |-> FALSE]
        ELSE [store |-> Execute(store, table, stmts, record_id, failAt - 1),
              raised |-> TRUE, open |-> FALSE]

\* The loop and its one commit.  Python's sqlite3 opens a transaction before
\* the first UPDATE and conn.commit() follows the loop: a statement that
\* raises leaves the earlier ones uncommitted, in a transaction of a
\* connection the next run replaces (open: it still holds the write lock).
UpdateRecord(store, table, fields, updates, record_id, fault, locked) ==
    LET stmts  == Statements(fields, updates)
        failAt == FailAt(stmts, fault, locked)
    IN  IF failAt = 0
        THEN [store  |-> Execute(store, table, stmts, record_id, Len(stmts)),
              raised |-> FALSE, open |-> FALSE]
        ELSE [store |-> store, raised |-> TRUE, open |-> failAt > 1]

(***************************************************************************)
(* Search: df.apply(row.astype(str).str.contains(search, case=False).any)  *)
(***************************************************************************)
\* The dtype pandas gives a column: int64, float64, or object when a value
\* is no number.
ColDType(rows, col) ==
    IF \A i \in 1..Len(rows) : rows[i][col].k = "int" THEN "int64"
    ELSE IF \A i \in 1..Len(rows) : rows[i][col].k \in {"int", "real"}
         THEN "float64"
         ELSE "object"

\* The dtype of a row taken across the columns (apply with axis=1): numbers
\* only are upcast to float64 as soon as one column is float64.
RowDType(rows, table) ==
    IF \E c \in ColNames(table) : ColDType(rows, c) = "object" THEN "object"
    ELSE IF \E c \in ColNames(table) : ColDType(rows, c) = "float64"
         THEN "float64"
         ELSE "int64"

\* One cell of row.astype(str).
CellStr(rows, table, v) ==
    IF RowDType(rows, table) = "float64" THEN Str(RealV(v.n)) ELSE Str(v)

\* str.contains takes its pattern as a regular expression.  Of the syntax,
\* the patterns of the model use: a literal, "." (any character), and "("
\* (which, never closed, makes re.compile raise).
RegexValid(pat) == \A j \in 1..Len(pat) : pat[j] # "("

MatchAt(pat, s, i) ==
    \A j \in 1..Len(pat) : pat[j] = "." \/ Lower(pat[j]) = Lower(s[i + j - 1])

RegexSearch(pat, s) ==
    \E i \in 1..(Len(s) - Len(pat) + 1) : MatchAt(pat, s, i)

RowMatches(rows, table, row, pat) ==
    \E c \in ColNames(table) : RegexSearch(pat, CellStr(rows, table, row[c]))

RECURSIVE FilterFrom(_, _, _, _)
FilterFrom(rows, table, pat, i) ==
    IF i > Len(rows) THEN << >>
    ELSE (IF RowMatches(rows, table, rows[i], pat) THEN <<rows[i]>> ELSE << >>)
            \o FilterFrom(rows, table, pat, i + 1)

\* df[df.apply(...)]
Filter(rows, table, pat) == FilterFrom(rows, table, pat, 1)

(***************************************************************************)
(* Dashboard.                                                              *)
(***************************************************************************)
Raised(what) == [k |-> "raised", s |-> what, n |-> 0]

\* Python's + on two values of an object column.
Plus(a, b) ==
    CASE a.k = "raised" -> a
      [] a.k = "int" /\ b.k = "int" -> IntV(a.n + b.n)
      [] a.k = "text" /\ b.k = "text" -> TextV(a.s \o b.s)
      [] OTHER -> Raised("TypeError")

\* Series.sum() of column col, the rows taken in order.
RECURSIVE SumFrom(_, _, _)
SumFrom(rows, col, i) ==
    IF i = 1 THEN rows[1][col]
    ELSE Plus(SumFrom(rows, col, i - 1), rows[i][col])

\* get_df('fees')['paid'].sum() if not get_df('fees').empty else 0
FeesPaid(store) ==
    IF Len(get_df(store, "fees")) = 0 THEN IntV(0)
    ELSE SumFrom(get_df(store, "fees"), "paid", Len(get_df(store, "fees")))

Metric(label, value) == [label |-> label, value |-> value]

Metrics(store) ==
    <<Metric("Total Students", IntV(Len(get_df(store, "students")))),
      Metric("Total Teachers", IntV(Len(get_df(store, "teachers")))),
      Metric("Books Issued", IntV(Len(get_df(store, "library")))),
      Metric("Total Fees Paid", FeesPaid(store))>>

(***************************************************************************)
(* The module router's table: per module, the arguments of crud_module.    *)
(***************************************************************************)
Modules == <<"Dashboard", "Students", "Teachers", "Attendance",
             "Fees", "Exams", "Library", "Timetable">>

Crud(table, fields, add_cols) ==
    [table |-> table, fields |-> fields, add_cols |-> add_cols]

router ==
    [Students   |-> Crud("students", <<"name", "class", "age">>,
                         <<"name", "class", "age">>),
     Teachers   |-> Crud("teachers", <<"name", "subject">>,
                         <<"name", "subject">>),
     Attendance |-> Crud("attendance", <<"student_id", "date", "status">>,
                         <<"student_id", "date", "status">>),
     Fees       |-> Crud("fees", <<"student_id", "amount", "paid">>,
                         <<"student_id", "amount", "paid">>),
     Exams      |-> Crud("exams", <<"student_id", "subject", "marks">>,
                         <<"student_id", "subject", "marks">>),
     Library    |-> Crud("library", <<"book", "student_id", "issue_date">>,
                         <<"book", "student_id", "issue_date">>),
     Timetable  |-> Crud("timetable", <<"class", "day", "subject", "teacher">>,
                         <<"class", "day", "subject", "teacher">>)]

CrudModules == DOMAIN router

\* The columns of the specialized Mark Attendance insert.
MarkCols == <<"student_id", "date", "status">>

\* str(date.today())
IsoFormat(d) ==
    Pad(StrNat(d.year), 4) \o <<"-">> \o Pad(StrNat(d.month), 2)
        \o <<"-">> \o Pad(StrNat(d.day), 2)

(***************************************************************************)
(* One run of the script.  A request names the button that is True in the  *)
(* run (op "none": no button) with the widget values its handler reads.    *)
(* A run is carried through the script as a record: the store, what is on  *)
(* the page so far, and the exception that ended it ("none": still going). *)
(***************************************************************************)
Req(op, id, args, fault) == [op |-> op, id |-> id, args |-> args, fault |-> fault]

NoReq == Req("none", 0, << >>, 0)

\* The run as the connection is opened and the sidebar drawn.
Start(store, table) ==
    [store |-> store, open |-> FALSE, msgs |-> {}, rendered |-> {},
     confirm |-> "absent", table |-> table, snapshot |-> << >>,
     shown |-> << >>, displayed |-> FALSE, metrics |-> << >>,
     error |-> "none", rerun |-> FALSE]

Raise(r, what) == [r EXCEPT !.error = what]

TextValues(args) == [i \in 1..Len(args) |-> TextV(args[i])]

\* The Add New Record expander.  locked: another connection holds the write
\* lock, and the INSERT raises.
AddPanel(r, cfg, req, locked) ==
    IF r.error # "none" THEN r
    ELSE IF req.op # "add" THEN [r EXCEPT !.rendered = @ \cup {"add"}]
    ELSE IF locked
         THEN Raise([r EXCEPT !.rendered = @ \cup {"add"}],
                    "sqlite3.OperationalError")
         ELSE [r EXCEPT
                  !.rendered = @ \cup {"add"},
                  !.store = add_record(@, cfg.table, cfg.add_cols,
                                       TextValues(req.args)),
                  !.msgs = @ \cup {"Record Added Successfully!"}]

\* View & Search: the snapshot, the filter, st.dataframe.
Searched(r, df, cfg, q) ==
    IF q # EmptyText /\ Len(df) > 0 /\ ~RegexValid(q)
    THEN Raise([r EXCEPT !.rendered = @ \cup {"search"}, !.snapshot = df],
               "re.error")
    ELSE [r EXCEPT
             !.rendered = @ \cup {"search"},
             !.snapshot = df,
             !.shown = IF q # EmptyText /\ Len(df) > 0
                       THEN Filter(df, cfg.table, q) ELSE df,
             !.displayed = TRUE]

ViewSearch(r, cfg, q) ==
    IF r.error # "none" THEN r
    ELSE Searched(r, get_df(r.store, cfg.table), cfg, q)

\* The Delete Record button and its confirmation checkbox.  ticked: the
\* value the checkbox has in this run.
DeletePanel(r, cfg, req, locked, ticked) ==
    IF req.op # "delete" THEN r
    ELSE IF ~ticked
         THEN [r EXCEPT !.rendered = @ \cup {"confirm"},
                        !.confirm = "unticked"]
    ELSE IF locked
         THEN Raise([r EXCEPT !.rendered = @ \cup {"confirm"},
                              !.confirm = "ticked"],
                    "sqlite3.OperationalError")
         ELSE [r EXCEPT
                  !.rendered = @ \cup {"confirm"},
                  !.confirm = "ticked",
                  !.store = delete_record(@, cfg.table, req.id),
                  !.msgs = @ \cup {"Record Deleted!"},
                  !.rerun = TRUE]

\* The Update Record button.
Updated(r, upd) ==
    IF upd.raised
    THEN Raise([r EXCEPT !.open = upd.open, !.store = upd.store],
               "sqlite3.OperationalError")
    ELSE [r EXCEPT !.store = upd.store,
                   !.msgs = @ \cup {"Record Updated!"}]

UpdatePanel(r, cfg, req, locked) ==
    IF r.error # "none" \/ r.rerun \/ req.op # "update" THEN r
    ELSE Updated(r, UpdateRecord(r.store, cfg.table, cfg.fields, req.args,
                                 req.id, req.fault, locked))

\* The Edit / Delete Record expander.
EditPanel(r, cfg, req, locked, ticked) ==
    IF r.error # "none" THEN r
    ELSE UpdatePanel(DeletePanel([r EXCEPT !.rendered = @ \cup {"edit"}],
                                 cfg, req, locked, ticked),
                     cfg, req, locked)

\* crud_module(title, table, fields, field_labels, add_cols)
crud_module(r, cfg, q, req, locked, ticked) ==
    EditPanel(ViewSearch(AddPanel(r, cfg, req, locked), cfg, q),
              cfg, req, locked, ticked)

\* The Dashboard branch.
Dashboard(r) ==
    IF FeesPaid(r.store).k = "raised" THEN Raise(r, "TypeError")
    ELSE [r EXCEPT !.metrics = Metrics(r.store)]

\* The Mark Attendance expander of the Attendance branch.
MarkPanel(r, req, locked) ==
    IF req.op # "mark" THEN [r EXCEPT !.rendered = @ \cup {"mark"}]
    ELSE IF locked
         THEN Raise([r EXCEPT !.rendered = @ \cup {"mark"}],
                    "sqlite3.OperationalError")
         ELSE [r EXCEPT
                  !.rendered = @ \cup {"mark"},
                  !.store = add_record(@, "attendance", MarkCols,
                                       <<IntV(req.id), TextV(req.args[1]),
                                         TextV(req.args[2])>>),
                  !.msgs = @ \cup {"Attendance Marked!"}]

TableOf(m) == IF m \in CrudModules THEN router[m].table ELSE "none"

\* The view drawn before the Mark Attendance handler runs.
BranchViewFirst(store, m, q, req, locked, ticked) ==
    CASE m = "Dashboard" -> Dashboard(Start(store, "none"))
      [] m = "Attendance" ->
            MarkPanel(crud_module(Start(store, "attendance"), router[m], q,
                                  req, locked, ticked),
                      req, locked)
      [] OTHER ->
            crud_module(Start(store, TableOf(m)), router[m], q, req, locked,
                        ticked)

\* The if/elif chain over the selected module.
Branch(store, m, q, req, locked, ticked) ==
    CASE m = "Dashboard" -> Dashboard(Start(store, "none"))
      [] m = "Attendance" ->
            crud_module(MarkPanel(Start(store, "attendance"), req, locked),
                        router[m], q, req, locked, ticked)
      [] OTHER ->
            crud_module(Start(store, TableOf(m)), router[m], q, req, locked,
                        ticked)

\* st.rerun(): the run is abandoned and the script runs again at once; no
\* button is True in that run, and the checkbox, not rendered, has no value.
Rerun(r, m, q, locked) ==
    IF r.rerun THEN Branch(r.store, m, q, NoReq, locked, FALSE) ELSE r

Run(store, m, q, req, locked, ticked) ==
    Rerun(Branch(store, m, q, req, locked, ticked), m, q, locked)

\* What a run leaves on the page.
View(r) ==
    [msgs |-> r.msgs, table |-> r.table, snapshot |-> r.snapshot,
     shown |-> r.shown, displayed |-> r.displayed, metrics |-> r.metrics,
     error |-> r.error]

(***************************************************************************)
(* Inputs of the model.                                                    *)
(***************************************************************************)
\* What is typed into a field of the Add panel: a word, a number with a
\* leading zero.
AddVals == {<<"a">>, <<"0", "1">>}

\* What is typed into a field of the Update panel (empty: left as it is).
UpdVals == {EmptyText, <<"0", "1">>}

\* What is typed into the search box.
SearchVals == {EmptyText, <<"A">>, <<"0">>, <<".">>, <<"(">>}

StudentIds == {1, 7}

Statuses == {<<"P", "r", "e", "s", "e", "n", "t">>,
             <<"A", "b", "s", "e", "n", "t">>}

Dates == {[year |-> 2026, month |-> 11, day |-> 1]}

RecordIds == 1..MaxId

Tuples(n, S) == [1..n -> S]

SameTuples(n, S) == {[i \in 1..n |-> v] : v \in S}

AddArgs(n, mixed) == IF mixed THEN Tuples(n, AddVals) ELSE SameTuples(n, AddVals)

\* The statement a storage fault makes raise (0: none).
Faults(stmts, storage) ==
    CASE storage = "sound" -> {0}
      [] storage = "faulty" -> IF Len(stmts) = 0 THEN {0} ELSE 1..Len(stmts)
      [] OTHER -> 0..Len(stmts)

RECURSIVE SumLen(_, _)
SumLen(store, T) ==
    IF T = {} THEN 0
    ELSE LET t == CHOOSE x \in T : TRUE
         IN  Len(store[t]) + SumLen(store, T \ {t})

TotalRows(store) == SumLen(store, TableNames)

CanInsert(table) ==
    TotalRows(db) < MaxRows /\ NextId(db[table]) <= MaxId

(***************************************************************************)
(* The interactions.  Each starts one run of the script: the connection is *)
(* opened anew (a replaced connection with an open transaction is rolled   *)
(* back when it is collected: gc), the module is read, its branch runs.    *)
(***************************************************************************)
Init ==
    /\ db = EmptyStore
    /\ stale = FALSE
    /\ module = "Dashboard"
    /\ search = EmptyText
    /\ confirm = "absent"
    /\ rendered = {}
    /\ view = View(Run(EmptyStore, "Dashboard", EmptyText, NoReq, FALSE, FALSE))
    /\ last = [act |-> "open", table |-> "none", req |-> NoReq,
               locked |-> FALSE]

Step(act, m, q, req, ticked, gc) ==
    \E out \in {Run(db, m, q, req, stale /\ ~gc, ticked)} :
        /\ db' = out.store
        /\ stale' = ((stale /\ ~gc) \/ out.open)
        /\ module' = m
        /\ search' = IF "search" \in out.rendered THEN q ELSE EmptyText
        /\ confirm' = out.confirm
        /\ rendered' = out.rendered
        /\ view' = View(out)
        /\ last' = [act |-> act, table |-> TableOf(m), req |-> req,
                    locked |-> stale /\ ~gc]

Collected == IF stale THEN BOOLEAN ELSE {TRUE}

SelectModule ==
    \E i \in 1..Len(Modules), gc \in Collected :
        /\ Modules[i] # module
        /\ Step("select", Modules[i], EmptyText, NoReq, FALSE, gc)

TypeSearch ==
    \E q \in SearchVals, gc \in Collected :
        /\ "search" \in rendered
        /\ Step("search", module, q, NoReq, FALSE, gc)

\* mixed: the fields may differ from one another.
PressAdd(mixed) ==
    \E gc \in Collected :
        /\ "add" \in rendered
        /\ CanInsert(router[module].table)
        /\ \E args \in AddArgs(Len(router[module].fields), mixed) :
              Step("add", module, search, Req("add", 0, args, 0),
                   confirm = "ticked", gc)

PressMark ==
    \E sid \in StudentIds, st \in Statuses, d \in Dates, gc \in Collected :
        /\ "mark" \in rendered
        /\ CanInsert("attendance")
        /\ Step("mark", module, search,
                Req("mark", sid, <<IsoFormat(d), st>>, 0),
                confirm = "ticked", gc)

PressDelete ==
    \E rid \in RecordIds, gc \in Collected :
        /\ "edit" \in rendered
        /\ Step("delete", module, search, Req("delete", rid, << >>, 0),
                confirm = "ticked", gc)

TickConfirm ==
    \E gc \in Collected :
        /\ confirm = "unticked"
        /\ Step("confirm", module, search,
                Req("none", last.req.id, << >>, 0), TRUE, gc)

\* storage: "sound" (no statement raises), "faulty" (one does, if there is
\* any), "any".
PressUpdate(storage) ==
    \E rid \in RecordIds, gc \in Collected :
        /\ "edit" \in rendered
        /\ \E args \in Tuples(Len(router[module].fields), UpdVals) :
              \E fault \in Faults(Statements(router[module].fields, args),
                                  storage) :
                  Step("update", module, search,
                       Req("update", rid, args, fault),
                       confirm = "ticked", gc)

\* The program: every interaction, any input, a storage that may fault.
Next ==
    \/ SelectModule
    \/ TypeSearch
    \/ PressAdd(TRUE)
    \/ PressMark
    \/ PressDelete
    \/ TickConfirm
    \/ PressUpdate("any")

Spec == Init /\ [][Next]_vars

(***************************************************************************)
(* Sessions of the program that TLC explores in full.  Each is Spec with   *)
(* the user keeping to some of the widgets.                                *)
(***************************************************************************)
\* Adding and marking, any field values; the Dashboard.
NextAdd ==
    \/ SelectModule
    \/ PressAdd(TRUE)
    \/ PressMark

SpecAdd == Init /\ [][NextAdd]_vars

\* Adding, marking and searching.
NextSearch ==
    \/ SelectModule
    \/ TypeSearch
    \/ PressAdd(FALSE)
    \/ PressMark

SpecSearch == Init /\ [][NextSearch]_vars

\* Adding, then editing and deleting, on a storage that does not fault.
NextEdit ==
    \/ SelectModule
    \/ PressAdd(FALSE)
    \/ PressDelete
    \/ TickConfirm
    \/ PressUpdate("sound")

SpecEdit == Init /\ [][NextEdit]_vars

\* Adding, then updates that a storage fault interrupts.
NextFault ==
    \/ SelectModule
    \/ PressAdd(FALSE)
    \/ PressUpdate("faulty")

SpecFault == Init /\ [][NextFault]_vars

(***************************************************************************)
(* The record accessors and the update loop called in any order on the     *)
(* store, delete_record included (which no run of the page reaches, see    *)
(* DeletePanel).  The page is left as it is.                               *)
(***************************************************************************)
Called(act, table, req) ==
    /\ last' = [act |-> act, table |-> table, req |-> req, locked |-> FALSE]
    /\ UNCHANGED <<stale, module, search, confirm, rendered, view>>

CallAddRecord ==
    \E m \in CrudModules :
        /\ CanInsert(router[m].table)
        /\ \E args \in AddArgs(Len(router[m].fields), FALSE) :
              /\ db' = add_record(db, router[m].table, router[m].add_cols,
                                  TextValues(args))
              /\ Called("add_record", router[m].table, Req("add", 0, args, 0))

CallMarkAttendance ==
    \E sid \in StudentIds, st \in Statuses, d \in Dates :
        /\ CanInsert("attendance")
        /\ db' = add_record(db, "attendance", MarkCols,
                            <<IntV(sid), TextV(IsoFormat(d)), TextV(st)>>)
        /\ Called("add_record", "attendance",
                  Req("mark", sid, <<IsoFormat(d), st>>, 0))

CallDeleteRecord ==
    \E table \in TableNames, id_val \in RecordIds :
        /\ db' = delete_record(db, table, id_val)
        /\ Called("delete_record", table, Req("delete", id_val, << >>, 0))

CallUpdate ==
    \E m \in CrudModules, rid \in RecordIds :
        \E args \in SameTuples(Len(router[m].fields), UpdVals) :
            /\ db' = UpdateRecord(db, router[m].table, router[m].fields, args,
                                  rid, 0, FALSE).store
            /\ Called("update", router[m].table, Req("update", rid, args, 0))

NextStore ==
    \/ CallAddRecord
    \/ CallMarkAttendance
    \/ CallDeleteRecord
    \/ CallUpdate

SpecStore == Init /\ [][NextStore]_vars

(***************************************************************************)
(* Properties.  The vocabulary they are stated in.                         *)
(***************************************************************************)
Added == "Record Added Successfully!" \in view.msgs

UpdatedOk == "Record Updated!" \in view.msgs

LastRow(rows) == rows[Len(rows)]

\* rows is old with one row appended.
Appends(old, rows) ==
    Len(rows) = Len(old) + 1 /\ SubSeq(rows, 1, Len(old)) = old

\* q occurs in s, letter case ignored.
Contains(q, s) ==
    \E i \in 1..(Len(s) - Len(q) + 1) :
        \A j \in 1..Len(q) : Lower(s[i + j - 1]) = Lower(q[j])

\* The rows of which some field, as a string, contains q.
Hits(rows, table, q) ==
    SelectSeq(rows, LAMBDA row :
        \E c \in ColNames(table) : Contains(q, CellStr(rows, table, row[c])))

(***************************************************************************)
(* C9: a displayed table holds, for an empty query, every row of the       *)
(* snapshot and, for a non-empty query, exactly the rows of which at       *)
(* least one field's string form contains the query as a substring,        *)
(* letter case ignored.                                                    *)
(***************************************************************************)
C9_SearchIsSubstring ==
    (view.displayed /\ view.table # "none") =>
        view.shown = IF search = EmptyText THEN view.snapshot
                     ELSE Hits(view.snapshot, view.table, search)

(***************************************************************************)
(* C7: Mark Attendance appends exactly one Attendance row holding the      *)
(* student id entered, today's date and the status chosen, whether or not  *)
(* a student with that id exists; the snapshot the view of the same run    *)
(* reads holds the row, and an unfiltered view displays it.  No other      *)
(* module has a second insert, and one run inserts at most one row.        *)
(***************************************************************************)
C7_MarkAppendsAndShows ==
    [][ /\ TotalRows(db') <= TotalRows(db) + 1
        /\ ("mark" \in rendered') => (module' = "Attendance")
        /\ (last'.act = "mark" /\ ~last'.locked) =>
              /\ Appends(db.attendance, db'.attendance)
              /\ LastRow(db'.attendance)["student_id"] = IntV(last'.req.id)
              /\ LastRow(db'.attendance)["date"] = TextV(last'.req.args[1])
              /\ LastRow(db'.attendance)["status"] = TextV(last'.req.args[2])
              /\ last'.req.args[1] = <<"2","0","2","6","-","1","1","-","0","1">>
              /\ \A t \in TableNames \ {"attendance"} : db'[t] = db[t]
              /\ "Attendance Marked!" \in view'.msgs
              /\ view'.snapshot = db'.attendance
              /\ (view'.displayed /\ search' = EmptyText) =>
                    view'.shown = db'.attendance
              /\ search' = EmptyText => view'.displayed ]_vars

\* An attendance row marked for a student that does not exist, after an
\* earlier row, and displayed.
C7_Witness ==
    /\ last.act = "mark"
    /\ last.req.id \notin Ids(db.students)
    /\ Len(db.attendance) = 2
    /\ view.displayed
    /\ view.shown = db.attendance

(***************************************************************************)
(* C1: a record added through the Add panel is appended to its table, the  *)
(* other rows and tables left alone, under an identifier no other row of   *)
(* the table has; read back by the view of the same run, each declared     *)
(* field holds the text entered, as the column's declared type stores it:  *)
(* a string of digits entered into an INTEGER column is the integer it     *)
(* denotes, into a REAL column the real, and any other text is itself.     *)
(***************************************************************************)
\* What a column of declared type typ holds for the text s entered.
StoredText(typ, s) ==
    IF Len(s) > 0 /\ (\A i \in 1..Len(s) : IsDigit(s[i]))
       /\ typ \in {"INTEGER", "REAL"}
    THEN [k |-> IF typ = "INTEGER" THEN "int" ELSE "real", s |-> EmptyText,
          n |-> ParseNat(s)]
    ELSE [k |-> "text", s |-> s, n |-> 0]

AddedRowHolds(table, old, rows, fields, args) ==
    /\ Appends(old, rows)
    /\ LastRow(rows)["id"].k = "int"
    /\ LastRow(rows)["id"].n \notin Ids(old)
    /\ \A i \in 1..Len(fields) :
          LastRow(rows)[fields[i]] =
              StoredText(ColType(table, fields[i]), args[i])

AllNumbers(rows, col) == \A i \in 1..Len(rows) : rows[i][col].k = "int"

RECURSIVE Total(_, _, _)
Total(rows, col, i) ==
    IF i = 0 THEN 0 ELSE Total(rows, col, i - 1) + rows[i][col].n

C6_DashboardMetrics ==
    (module = "Dashboard") =>
        /\ Len(view.metrics) = 4
        /\ view.metrics[1] =
              [label |-> "Total Students", value |-> IntV(Len(db.students))]
        /\ view.metrics[2] =
              [label |-> "Total Teachers", value |-> IntV(Len(db.teachers))]
        /\ view.metrics[3] =
              [label |-> "Books Issued", value |-> IntV(Len(db.library))]
        /\ view.metrics[4].label = "Total Fees Paid"
        /\ AllNumbers(db.fees, "paid") =>
              view.metrics[4].value
                  = IntV(Total(db.fees, "paid", Len(db.fees)))

(***************************************************************************)
(* C2: once Delete Record has been pressed for an identifier and the       *)
(* confirmation checkbox ticked, the table holds no row of that            *)
(* identifier.                                                             *)
(***************************************************************************)
C2_ConfirmedDeleteRemoves ==
    (last.act = "confirm" /\ view.error = "none") =>
        last.req.id \notin Ids(db[last.table])

(***************************************************************************)
(* C4: an Update for an existing or absent identifier with values for the  *)
(* fields S (the non-empty ones) changes, in the row of that identifier,   *)
(* exactly the fields of S, each to the text supplied as the column's      *)
(* declared type stores it; the row's other fields, the identifier, the    *)
(* other rows and the other tables keep their values.  With every value    *)
(* empty nothing changes.  Success is reported.                            *)
(***************************************************************************)
Supplied(fields, args, c) ==
    \E j \in 1..Len(fields) : fields[j] = c /\ args[j] # EmptyText

ValueFor(fields, args, c) == args[CHOOSE j \in 1..Len(fields) : fields[j] = c]

RowsUpdated(table, old, rows, fields, args, rid) ==
    /\ Len(rows) = Len(old)
    /\ \A i \in 1..Len(old) :
          IF old[i]["id"].n = rid
          THEN \A c \in ColNames(table) :
                  rows[i][c] =
                      IF Supplied(fields, args, c)
                      THEN StoredText(ColType(table, c),
                                      ValueFor(fields, args, c))
                      ELSE old[i][c]
          ELSE rows[i] = old[i]

C5_UpdateOfAbsentId ==
    [][ ( /\ last'.act = "update"
          /\ ~last'.locked
          /\ last'.req.fault = 0
          /\ last'.req.id \notin Ids(db[last'.table]) ) =>
           /\ db' = db
           /\ view'.error = "none"
           /\ "Record Updated!" \in view'.msgs ]_vars

\* Values supplied for an identifier that the table, not empty, lacks.
C5_Witness ==
    /\ last.act = "update"
    /\ UpdatedOk
    /\ view.error = "none"
    /\ Len(db[last.table]) = 1
    /\ last.req.id \notin Ids(db[last.table])
    /\ \A j \in 1..Len(last.req.args) : last.req.args[j] # EmptyText
    /\ \A c \in ColNames(last.table) :
          c # "id" => db[last.table][1][c] = TextV(<<"a">>)

(***************************************************************************)
(* C10: the statements of one Update are committed together, after the     *)
(* last of them: when a statement raises, whether the first or a later     *)
(* one, the store keeps every value it had before the Update, the fields   *)
(* already written included, and no success is reported.  What add_record  *)
(* inserts is committed before it returns: the view of the same run and    *)
(* of every later run reads the table from the store.                      *)
(***************************************************************************)
C10_FailedUpdateKeepsStore ==
    [][ /\ (last'.act = "update" /\ view'.error = "sqlite3.OperationalError") =>
              /\ db' = db
              /\ "Record Updated!" \notin view'.msgs
              /\ view'.snapshot = db[last'.table]
        /\ (last'.act \in {"select", "add"} /\ view'.displayed) =>
              view'.snapshot = db'[view'.table] ]_vars

FirstSupplied(args) == CHOOSE j \in 1..Len(args) :
    args[j] # EmptyText /\ \A i \in 1..(j - 1) : args[i] = EmptyText

\* An Update of an existing row raised at its second statement or later,
\* the first having written a value the row did not hold.
C10_Witness ==
    /\ last.act = "update"
    /\ view.error = "sqlite3.OperationalError"
    /\ ~last.locked
    /\ last.req.fault >= 2
    /\ \E i \in 1..Len(db[last.table]) :
          /\ db[last.table][i]["id"].n = last.req.id
          /\ db[last.table][i][router[module].fields[FirstSupplied(last.req.args)]]
                # StoredText(ColType(last.table,
                      router[module].fields[FirstSupplied(last.req.args)]),
                      last.req.args[FirstSupplied(last.req.args)])

\* C10 as stated: the field written before the statement that raised
\* holds its new value.
C10_WrittenFieldPersists ==
    ( /\ last.act = "update"
      /\ view.error = "sqlite3.OperationalError"
      /\ ~last.locked
      /\ last.req.fault >= 2 ) =>
        \A i \in 1..Len(db[last.table]) :
            db[last.table][i]["id"].n = last.req.id =>
                db[last.table][i][router[module].fields[FirstSupplied(last.req.args)]]
                    = StoredText(ColType(last.table,
                          router[module].fields[FirstSupplied(last.req.args)]),
                          last.req.args[FirstSupplied(last.req.args)])

(***************************************************************************)
(* C3: delete_record removes from the table the rows of the identifier     *)
(* given, at most one, and leaves the other rows, their order and the      *)
(* other tables as they are; for an identifier no row has, the table is    *)
(* unchanged.                                                              *)
(***************************************************************************)
C3_DeleteRemovesAtMostOne ==
    [][ (last'.act = "delete_record") =>
           /\ db'[last'.table] =
                 SelectSeq(db[last'.table],
                           LAMBDA row : row["id"].n # last'.req.id)
           /\ Len(db[last'.table]) - Len(db'[last'.table]) \in {0, 1}
           /\ last'.req.id \notin Ids(db[last'.table]) => db' = db
           /\ last'.req.id \in Ids(db[last'.table]) =>
                 Len(db'[last'.table]) = Len(db[last'.table]) - 1
           /\ \A t \in TableNames \ {last'.table} : db'[t] = db[t] ]_vars

\* The first of two rows deleted.
C3_Witness ==
    /\ last.act = "delete_record"
    /\ last.req.id = 1
    /\ Ids(db[last.table]) = {2}

(***************************************************************************)
(* C8: in every table the identifiers are integers, pairwise distinct; no  *)
(* form of the page has an input for the identifier column.                *)
(***************************************************************************)
C8_IdsUnique ==
    /\ \A t \in TableNames :
          \A i \in 1..Len(db[t]) :
              /\ db[t][i]["id"].k = "int"
              /\ db[t][i]["id"].n >= 1
              /\ \A j \in 1..Len(db[t]) : 
                    db[t][i]["id"] = db[t][j]["id"] => i = j
    /\ \A m \in CrudModules :
          /\ ~InSeq(router[m].add_cols, "id")
          /\ ~InSeq(router[m].fields, "id")
    /\ ~InSeq(MarkCols, "id")

\* A row inserted after the deletion of an earlier one.
C8_Witness ==
    /\ last.act = "add_record"
    /\ TotalRows(db) = 2
    /\ \E t \in TableNames : Ids(db[t]) = {2}

====
